---- MODULE Spec2Model ----
(***************************************************************************)
(* The QEP explanation engine of explain.py: analyze_query obtains a raw   *)
(* plan, parse_and_explain builds the typed node tree with an explicit     *)
(* work list, Node.explain walks it depth first and each node class adds   *)
(* its cost-model text in fetch_stats.                                     *)
(*                                                                         *)
(* A raw plan (nested JSON) is a function from paths to raw nodes: <<>> is *)
(* qep['Plan'], p \o <<i>> the i-th element of the 'Plans' list of p.  A   *)
(* raw node is a record whose field keys is the set of keys the dict has.  *)
(* The report is a sequence of lines; a line records its indentation, its  *)
(* kind (the fixed text of the line), the values formatted into it and, as *)
(* bookkeeping, the typed node whose call produced it.                     *)
(***************************************************************************)
EXTENDS Integers, Sequences, FiniteSets, TLC

VARIABLES pc, qep, nodes, stack, frames, result, log, gui

vars == <<pc, qep, nodes, stack, frames, result, log, gui>>

(***************************************************************************)
(* Bounds of the plans the plan source may return.                         *)
(***************************************************************************)
MaxKids == 2

MaxDepth == 2

MaxNodes == 4

(***************************************************************************)
(* Raw plan nodes.                                                         *)
(***************************************************************************)
BaseKeys == {"Node Type", "Startup Cost", "Total Cost", "Plan Rows", "Plan Width"}

Raw(type, rows, total, extra) ==
  [keys |-> BaseKeys \cup extra, type |-> type, startup |-> 0, total |-> total,
   rows |-> rows, width |-> 8, rel |-> "", idx |-> "", method |-> "", strategy |-> ""]

Has(json, key) == key \in json.keys

Without(json, key) == [json EXCEPT !.keys = @ \ {key}]

\* the paths of a plan are closed under prefix and under elder sibling
Grow(S) ==
  { S \cup {p \o <<i>>} : <<p, i>> \in
      { pi \in S \X (1..MaxKids) :
          /\ Len(pi[1]) < MaxDepth
          /\ (pi[1] \o <<pi[2]>>) \notin S
          /\ (pi[2] = 1 \/ (pi[1] \o <<pi[2] - 1>>) \in S) } }

RECURSIVE ShapesOf(_)
ShapesOf(n) == IF n <= 1 THEN {{<<>>}} ELSE UNION { Grow(S) : S \in ShapesOf(n - 1) }

Shapes == UNION { ShapesOf(n) : n \in 1..MaxNodes }

NumPlans(plan, p) == Cardinality({ i \in 1..MaxKids : (p \o <<i>>) \in DOMAIN plan })

\* plan['Plans'] as the list of the sub-plans' paths
Plans(plan, p) == [i \in 1..NumPlans(plan, p) |-> p \o <<i>>]

(***************************************************************************)
(* The registry (explain.py:31-37 and the @register_node decorators).      *)
(***************************************************************************)
LookupTypes ==
  {"Seq Scan", "Index Scan", "Bitmap Index Scan", "Bitmap Heap Scan", "Incremental Sort",
   "Limit", "Materialize", "Aggregate", "Group", "Unique"}

JoinTypes == {"Nested Loop Join", "Merge Join", "Hash Join"}

RegisteredTypes ==
  LookupTypes \cup JoinTypes \cup
  {"Hash", "Gather", "Gather Merge", "Sort", "Memoize", "Bitmap And", "Bitmap Or",
   "Append", "Merge Append"}

node_registry == [t \in RegisteredTypes |-> t \o " Node"]

\* an unknown type built with a registered class instead of the base class
ClassOfRegisteredOnly(node_type) ==
  IF node_type \in DOMAIN node_registry THEN node_registry[node_type] ELSE node_registry["Sort"]

\* node_registry.get(node_type, Node): the class the node is built with
ClassOf(node_type) ==
  IF node_type \in DOMAIN node_registry THEN node_registry[node_type] ELSE "Node"

(***************************************************************************)
(* The plans the plan source returns.  TreePlans vary the shape of the     *)
(* tree over nodes that need no statistics; RootPlans vary the operator    *)
(* type and the optional keys of the root over a row of Seq Scan children. *)
(***************************************************************************)
TreeNodes ==
  { Raw("Sort", 5, 10, {"Sort Method"}), Raw("Sort", 5, 20, {"Sort Method"}), Raw("Foo", 5, 10, {}) }

WithMethod(json) == IF json.type = "Sort" THEN [json EXCEPT !.method = "quicksort"] ELSE json

\* a node with sub-plans has the 'Plans' key; a leaf has no such key
Keyed(plan) ==
  [p \in DOMAIN plan |->
     IF NumPlans(plan, p) > 0 THEN [plan[p] EXCEPT !.keys = @ \cup {"Plans"}] ELSE plan[p]]

TreePlans == UNION { { Keyed([p \in S |-> WithMethod(f[p])]) : f \in [S -> TreeNodes] } : S \in Shapes }

Relations == <<"customer", "orders", "lineitem", "part">>

ScanChild(i) == [Raw("Seq Scan", 5 + 2 * i, 35 * i, {"Relation Name"}) EXCEPT !.rel = Relations[i]]

RootTypes == RegisteredTypes \cup {"Foo"}

RootVariants(t) ==
  LET base == Raw(t, 5, 42, {})
      named == [base EXCEPT !.keys = @ \cup {"Relation Name"}, !.rel = "customer"]
      indexed == [named EXCEPT !.keys = @ \cup {"Index Name"}, !.idx = "customer_pkey"]
  IN  CASE t \in {"Index Scan", "Bitmap Index Scan"} -> {base, named, indexed}
        [] t = "Sort" -> { [base EXCEPT !.keys = @ \cup {"Sort Method"}, !.method = m] :
                             m \in {"quicksort", "external merge", "top-N heapsort"} } \cup {base}
        [] t = "Aggregate" -> {named, [named EXCEPT !.keys = @ \cup {"Strategy"}, !.strategy = "Hashed"], base}
        [] t \in LookupTypes -> {base, named}
        [] OTHER -> {base}

Roots == UNION { RootVariants(t) : t \in RootTypes } \cup { Without(Raw("", 5, 42, {}), "Node Type") }

\* root r over k Seq Scan children; k = 0 with or without an empty 'Plans' list
RootPlan(r, k, key) ==
  [p \in {<<>>} \cup { <<i>> : i \in 1..k } |->
     IF p = <<>> THEN (IF key THEN [r EXCEPT !.keys = @ \cup {"Plans"}] ELSE r)
     ELSE ScanChild(p[1])]

RootPlans ==
  { RootPlan(r, k, TRUE) : r \in Roots, k \in 0..MaxKids } \cup { RootPlan(r, 0, FALSE) : r \in Roots }

\* a sub-plan without 'Node Type' below a well-formed root
BadChildPlans ==
  { [pl EXCEPT ![<<1>>] = Without(@, "Node Type")] : pl \in { RootPlan(r, 1, TRUE) : r \in TreeNodes } }

\* the numeric keys of the summary lines
SparseKeys == {"Startup Cost", "Total Cost", "Plan Rows", "Plan Width"}

\* a single node, or one sub-plan of a join, without one of the numeric keys
SparsePlans ==
  { RootPlan(Without(r, key), 0, FALSE) :
      r \in { Raw("Foo", 5, 42, {}), WithMethod(Raw("Sort", 5, 42, {"Sort Method"})) }, key \in SparseKeys }
  \cup { [RootPlan(Raw(t, 5, 42, {}), 2, TRUE) EXCEPT ![<<i>>] = Without(@, "Total Cost")] :
           t \in JoinTypes, i \in 1..2 }

QepPlans == TreePlans \cup RootPlans \cup BadChildPlans \cup SparsePlans

(***************************************************************************)
(* Numbers as Python prints them: an int, or a float kept in thousandths.  *)
(***************************************************************************)
IntV(n) == [milli |-> 1000 * n, float |-> FALSE]

FloatV(m) == [milli |-> m, float |-> TRUE]

AddV(a, b) == [milli |-> a.milli + b.milli, float |-> a.float \/ b.float]

Frac(m) ==
  IF m % 100 = 0 THEN ToString(m \div 100)
  ELSE IF m % 10 = 0 THEN (IF m < 100 THEN "0" ELSE "") \o ToString(m \div 10)
  ELSE (IF m < 10 THEN "00" ELSE IF m < 100 THEN "0" ELSE "") \o ToString(m)

FmtNum(v) ==
  IF v.float THEN ToString(v.milli \div 1000) \o "." \o Frac(v.milli % 1000)
  ELSE ToString(v.milli \div 1000)

\* f"{json.get(key)}" of a numeric key: the number, or None when the key is absent
FmtGet(json, key, value) == IF Has(json, key) THEN ToString(value) ELSE "None"

\* n * log2(n), in thousandths
NLog2N(n) ==
  CASE n <= 1 -> 0 [] n = 2 -> 2000 [] n = 3 -> 4755 [] n = 4 -> 8000 [] OTHER -> 11610

RECURSIVE SumSeq(_)
SumSeq(s) == IF s = <<>> THEN 0 ELSE s[1] + SumSeq(Tail(s))

(***************************************************************************)
(* The statistics the cursor returns when it has a row.                    *)
(***************************************************************************)
RECURSIVE IndexIn(_, _)
IndexIn(x, s) == IF s = <<>> THEN 0 ELSE IF s[1] = x THEN 1 ELSE 1 + IndexIn(x, Tail(s))

relpages(rel) == 10 * IndexIn(rel, Relations)

reltuples(rel) == 100 * IndexIn(rel, Relations)

Outcomes == {"row", "none", "error"}

(***************************************************************************)
(* Lines of the report and results of a call.                              *)
(***************************************************************************)
Line(depth, kind, args, id) == [indent |-> depth, kind |-> kind, args |-> args, by |-> id]

Text(lines) == [exc |-> "", lines |-> lines]

Raise(exc) == [exc |-> exc, lines |-> <<>>]

Truthy(json, key) ==
  /\ Has(json, key)
  /\ (CASE key = "Relation Name" -> json.rel # "" [] key = "Index Name" -> json.idx # "" [] OTHER -> TRUE)

\* json.get('Relation Name') formatted into a line
RelName(json) == IF Has(json, "Relation Name") THEN json.rel ELSE "None"

\* child.get('Total Cost', 0) and child.get('Plan Rows', 0) of a raw sub-plan
TotalCost0(json) == IF Has(json, "Total Cost") THEN json.total ELSE 0

PlanRows0(json) == IF Has(json, "Plan Rows") THEN json.rows ELSE 0

\* the three lines every cost model ends with, after its own first line
Model(depth, id, first, cost, rationale) ==
  first \o <<Line(depth, "Manual Cost Formula", <<cost>>, id), Line(depth, rationale, <<>>, id)>>

(***************************************************************************)
(* The cost models: fetch_stats of every node class.  json is the node's   *)
(* raw plan object, subs the raw objects of its 'Plans' list, kids the raw *)
(* objects of the typed children, c the outcomes of the lookups the call   *)
(* makes ("row", "none": fetchone() returns None, "error": execute raises).*)
(***************************************************************************)
Node_fetch_stats(json, depth, id) == Text(<<>>)

\* the lookup without its "if stats:" test: subscripting None raises TypeError
GuardedByNameOnly(named, c, lines) ==
  IF ~named THEN Text(<<>>)
  ELSE IF c[1] = "error" THEN Raise("DatabaseError")
  ELSE IF c[1] = "row" THEN Text(lines)
  ELSE Raise("TypeError")

\* a guarded pg_class / pg_stat_user_indexes lookup: no text without a row
Guarded(named, c, lines) ==
  IF ~named THEN Text(<<>>)
  ELSE IF c[1] = "error" THEN Raise("DatabaseError")
  ELSE IF c[1] = "row" THEN Text(lines)
  ELSE Text(<<>>)

\* an unguarded lookup: fetchone()[...] on None raises TypeError
Unguarded(c, lines) ==
  IF c[1] = "error" THEN Raise("DatabaseError")
  ELSE IF c[1] = "none" THEN Raise("TypeError")
  ELSE Text(lines)

SeqScanNode_fetch_stats(json, depth, id, c) ==
  Guarded(Truthy(json, "Relation Name"), c,
    Model(depth, id,
      <<Line(depth, "Table stats", <<json.rel, ToString(reltuples(json.rel)), ToString(relpages(json.rel))>>, id)>>,
      ToString(relpages(json.rel)), "Difference Explanation"))

IndexScanNode_fetch_stats(json, depth, id, c) ==
  Guarded(Truthy(json, "Index Name") /\ Truthy(json, "Relation Name"), c,
    Model(depth, id, <<Line(depth, "Index stats", <<json.idx, json.rel, "4", "200">>, id)>>,
      "200", "Difference Explaination"))

BitmapIndexScanNode_fetch_stats(json, depth, id, c) ==
  Guarded(Truthy(json, "Index Name"), c,
    Model(depth, id, <<Line(depth, "Index stats", <<json.idx, "4", "200">>, id)>>,
      "4", "Differece Explanation"))

BitmapHeapScanNode_fetch_stats(json, depth, id, c) ==
  Guarded(Truthy(json, "Relation Name"), c,
    Model(depth, id,
      <<Line(depth, "Table stats", <<json.rel, ToString(reltuples(json.rel)), ToString(relpages(json.rel))>>, id)>>,
      FmtNum(FloatV(100 * relpages(json.rel))), "Differece Explanation"))

\* Plans[0] if 'Plans' in json else {}  and  Plans[1] if len(Plans) > 1 else {}
NestedLoopJoinNode_fetch_stats(json, subs, depth, id) ==
  IF Has(json, "Plans") /\ Len(subs) = 0 THEN Raise("IndexError")
  ELSE LET left_cost == IF Len(subs) >= 1 THEN TotalCost0(subs[1]) ELSE 0
           left_rows == IF Len(subs) >= 1 THEN PlanRows0(subs[1]) ELSE 0
           right_cost == IF Len(subs) > 1 THEN TotalCost0(subs[2]) ELSE 0
       IN  Text(Model(depth, id, <<Line(depth, "Nested Loop Join uses condition", <<>>, id)>>,
                  ToString(left_cost + left_rows * right_cost), "Difference Explanation")
                \o <<Line(depth, "PostgreSQL also considers", <<>>, id)>>)

\* a Merge Join model with the factor 3 in place of 1.5
MergeJoinNodeTripled(json, subs, depth, id) ==
  IF Has(json, "Plans") /\ Len(subs) = 0 THEN Raise("IndexError")
  ELSE LET left_cost == IF Len(subs) >= 1 THEN TotalCost0(subs[1]) ELSE 0
           right_cost == IF Len(subs) > 1 THEN TotalCost0(subs[2]) ELSE 0
       IN  Text(Model(depth, id, <<Line(depth, "Merge Join on keys", <<>>, id)>>,
                  FmtNum(FloatV(3000 * (left_cost + right_cost))), "Difference Explanation"))

MergeJoinNode_fetch_stats(json, subs, depth, id) ==
  IF Has(json, "Plans") /\ Len(subs) = 0 THEN Raise("IndexError")
  ELSE LET left_cost == IF Len(subs) >= 1 THEN TotalCost0(subs[1]) ELSE 0
           right_cost == IF Len(subs) > 1 THEN TotalCost0(subs[2]) ELSE 0
       IN  Text(Model(depth, id, <<Line(depth, "Merge Join on keys", <<>>, id)>>,
                  FmtNum(FloatV(1500 * (left_cost + right_cost))), "Difference Explanation"))

HashNode_fetch_stats(json, depth, id) ==
  Text(Model(depth, id, <<Line(depth, "Hash operation involves", <<ToString(PlanRows0(json))>>, id)>>,
         FmtNum(FloatV(500 * PlanRows0(json))), "Difference Explanation"))

\* json['Plans'][0], json['Plans'][1] and child['Total Cost'], none of them guarded
HashJoinNode_fetch_stats(json, subs, depth, id) ==
  IF ~Has(json, "Plans") THEN Raise("KeyError")
  ELSE IF Len(subs) < 2 THEN Raise("IndexError")
  ELSE IF ~Has(subs[1], "Total Cost") \/ ~Has(subs[2], "Total Cost") THEN Raise("KeyError")
  ELSE LET left_cost == 3 * subs[1].total
           right_cost == 3 * subs[2].total
       IN  Text(Model(depth, id, <<Line(depth, "Hash Join uses condition", <<>>, id)>>,
                  ToString(left_cost + right_cost), "Difference Explanation"))

GatherNode_fetch_stats(json, subs, depth, id) ==
  Text(Model(depth, id, <<Line(depth, "Gather node combines", <<>>, id)>>,
         ToString(SumSeq([i \in 1..Len(subs) |-> TotalCost0(subs[i])])), "Difference Explanation"))

GatherMergeNode_fetch_stats(json, subs, depth, id) ==
  LET total_cost == IntV(SumSeq([i \in 1..Len(subs) |-> TotalCost0(subs[i])]))
      merge_cost == IF Len(subs) > 0 THEN FloatV(NLog2N(Len(subs))) ELSE IntV(0)
  IN  Text(Model(depth, id, <<Line(depth, "Gather Merge combines", <<>>, id)>>,
             FmtNum(AddV(total_cost, merge_cost)), "Difference Explanation"))

\* a Sort model that keeps the rationale for the methods whose cost differs
SortNodeRationaleOnDivergence(json, depth, id) ==
  LET sort_method == IF Has(json, "Sort Method") THEN json.method ELSE "unknown"
      x == TotalCost0(json)
      manual_cost == CASE sort_method = "external merge" -> IntV(x * 3)
                       [] sort_method = "quicksort" -> IntV(x)
                       [] sort_method = "top-N heapsort" -> FloatV((1000 * x) \div 3)
                       [] OTHER -> IntV(x)
      lines == Model(depth, id, <<Line(depth, "Sort on relation", <<RelName(json), sort_method>>, id)>>,
                 FmtNum(manual_cost), "Difference Explanation")
  IN  Text(IF manual_cost.milli = 1000 * x THEN SubSeq(lines, 1, Len(lines) - 1) ELSE lines)

SortNode_fetch_stats(json, depth, id) ==
  LET sort_method == IF Has(json, "Sort Method") THEN json.method ELSE "unknown"
      x == TotalCost0(json)
      manual_cost == CASE sort_method = "external merge" -> IntV(x * 3)
                       [] sort_method = "quicksort" -> IntV(x)
                       [] sort_method = "top-N heapsort" -> FloatV((1000 * x) \div 3)
                       [] OTHER -> IntV(x)
  IN  Text(Model(depth, id, <<Line(depth, "Sort on relation", <<RelName(json), sort_method>>, id)>>,
             FmtNum(manual_cost), "Difference Explanation"))

IncrementalSortNode_fetch_stats(json, depth, id, c) ==
  Unguarded(c, Model(depth, id, <<Line(depth, "Incremental sort on", <<RelName(json)>>, id)>>,
                 "6", "Difference Explanation"))

LimitNode_fetch_stats(json, depth, id, c) ==
  Unguarded(c, Model(depth, id, <<Line(depth, "Limit operation on", <<RelName(json)>>, id)>>,
                 "10", "Difference Explanation"))

MaterializeNode_fetch_stats(json, depth, id, c) ==
  Unguarded(c, Model(depth, id, <<Line(depth, "Materialize intermediate results for", <<RelName(json)>>, id)>>,
                 "200", "Difference Explanation"))

MemoizeNode_fetch_stats(json, depth, id) ==
  Text(Model(depth, id, <<Line(depth, "Memoize reuses results", <<>>, id)>>, "0", "Difference Explanation"))

\* "SELECT ... FROM " + relation_name raises TypeError when the name is None
AggregateNode_fetch_stats(json, depth, id, c) ==
  IF ~Has(json, "Relation Name") THEN Raise("TypeError")
  ELSE Unguarded(c, Model(depth, id, <<Line(depth, "Aggregate operation on", <<json.rel>>, id)>>,
                      IF Has(json, "Strategy") /\ json.strategy = "Hashed" THEN "100" ELSE "500",
                      "Difference Explanation"))

GroupNode_fetch_stats(json, depth, id, c) ==
  IF ~Has(json, "Relation Name") THEN Raise("TypeError")
  ELSE IF c[1] # "row" THEN Unguarded(c, <<>>)
  ELSE Unguarded(Tail(c), Model(depth, id, <<Line(depth, "Group by operation on", <<json.rel>>, id)>>,
                            "500", "Difference Explanation"))

UniqueNode_fetch_stats(json, depth, id, c) ==
  IF ~Has(json, "Relation Name") THEN Raise("TypeError")
  ELSE Unguarded(c, Model(depth, id, <<Line(depth, "Unique operation", <<json.rel>>, id)>>,
                      "100", "Difference Explanation"))

BitmapAndNode_fetch_stats(json, depth, id) ==
  Text(Model(depth, id, <<Line(depth, "Bitmap AND operation", <<>>, id)>>, "Negligible", "Difference Explanation"))

BitmapOrNode_fetch_stats(json, depth, id) ==
  Text(Model(depth, id, <<Line(depth, "Bitmap OR operation", <<>>, id)>>, "Negligible", "Difference Explanation"))

AppendNode_fetch_stats(json, kids, depth, id) ==
  Text(Model(depth, id, <<Line(depth, "Append Node combines", <<>>, id)>>,
         ToString(SumSeq([i \in 1..Len(kids) |-> TotalCost0(kids[i])])), "Difference Explanation"))

MergeAppendNode_fetch_stats(json, kids, depth, id) ==
  LET total_cost == IntV(SumSeq([i \in 1..Len(kids) |-> TotalCost0(kids[i])]))
      merge_cost == IF Len(kids) > 0 THEN FloatV(NLog2N(Len(kids))) ELSE IntV(0)
  IN  Text(Model(depth, id, <<Line(depth, "Merge Append Node combines", <<>>, id)>>,
             FmtNum(AddV(total_cost, merge_cost)), "Difference Explanation"))

\* how many cursor.execute calls the fetch_stats of a node of this type can reach
NumLookups(json) ==
  LET t == IF Has(json, "Node Type") THEN json.type ELSE ""
  IN  CASE t \in {"Seq Scan", "Bitmap Heap Scan"} -> IF Truthy(json, "Relation Name") THEN 1 ELSE 0
        [] t = "Index Scan" -> IF Truthy(json, "Index Name") /\ Truthy(json, "Relation Name") THEN 1 ELSE 0
        [] t = "Bitmap Index Scan" -> IF Truthy(json, "Index Name") THEN 1 ELSE 0
        [] t \in {"Incremental Sort", "Limit", "Materialize"} -> 1
        [] t \in {"Aggregate", "Unique"} -> IF Has(json, "Relation Name") THEN 1 ELSE 0
        [] t = "Group" -> IF Has(json, "Relation Name") THEN 2 ELSE 0
        [] OTHER -> 0

\* self.fetch_stats(depth), dispatched on the class the node was built with
fetch_stats(cls, json, subs, kids, depth, id, c) ==
  CASE cls = ClassOf("Seq Scan") -> SeqScanNode_fetch_stats(json, depth, id, c)
    [] cls = ClassOf("Index Scan") -> IndexScanNode_fetch_stats(json, depth, id, c)
    [] cls = ClassOf("Bitmap Index Scan") -> BitmapIndexScanNode_fetch_stats(json, depth, id, c)
    [] cls = ClassOf("Bitmap Heap Scan") -> BitmapHeapScanNode_fetch_stats(json, depth, id, c)
    [] cls = ClassOf("Nested Loop Join") -> NestedLoopJoinNode_fetch_stats(json, subs, depth, id)
    [] cls = ClassOf("Merge Join") -> MergeJoinNode_fetch_stats(json, subs, depth, id)
    [] cls = ClassOf("Hash") -> HashNode_fetch_stats(json, depth, id)
    [] cls = ClassOf("Hash Join") -> HashJoinNode_fetch_stats(json, subs, depth, id)
    [] cls = ClassOf("Gather") -> GatherNode_fetch_stats(json, subs, depth, id)
    [] cls = ClassOf("Gather Merge") -> GatherMergeNode_fetch_stats(json, subs, depth, id)
    [] cls = ClassOf("Sort") -> SortNode_fetch_stats(json, depth, id)
    [] cls = ClassOf("Incremental Sort") -> IncrementalSortNode_fetch_stats(json, depth, id, c)
    [] cls = ClassOf("Limit") -> LimitNode_fetch_stats(json, depth, id, c)
    [] cls = ClassOf("Materialize") -> MaterializeNode_fetch_stats(json, depth, id, c)
    [] cls = ClassOf("Memoize") -> MemoizeNode_fetch_stats(json, depth, id)
    [] cls = ClassOf("Aggregate") -> AggregateNode_fetch_stats(json, depth, id, c)
    [] cls = ClassOf("Group") -> GroupNode_fetch_stats(json, depth, id, c)
    [] cls = ClassOf("Unique") -> UniqueNode_fetch_stats(json, depth, id, c)
    [] cls = ClassOf("Bitmap And") -> BitmapAndNode_fetch_stats(json, depth, id)
    [] cls = ClassOf("Bitmap Or") -> BitmapOrNode_fetch_stats(json, depth, id)
    [] cls = ClassOf("Append") -> AppendNode_fetch_stats(json, kids, depth, id)
    [] cls = ClassOf("Merge Append") -> MergeAppendNode_fetch_stats(json, kids, depth, id)
    [] OTHER -> Node_fetch_stats(json, depth, id)

(***************************************************************************)
(* analyze_query: what the plan source answers, and what the call returns. *)
(***************************************************************************)
\* conn.cursor / execute_explain: an exception, a falsy result, or a plan
Responses ==
  { [kind |-> "raise", exc |-> e, plan |-> <<>>] :
      e \in {"DatabaseError", "ProgrammingError", "InterfaceError", "TypeError"} }
  \cup { [kind |-> "falsy", exc |-> "", plan |-> <<>>] }
  \cup { [kind |-> "plan", exc |-> "", plan |-> pl] : pl \in QepPlans }

\* psycopg2.ProgrammingError is a subclass of psycopg2.DatabaseError
IsDatabaseError(exc) == exc \in {"DatabaseError", "ProgrammingError"}

Pending == [ret |-> "pending", qep |-> "None", head |-> "", exc |-> "", body |-> <<>>]

\* the function ends without a return statement
ReturnsNothing == [ret |-> "None", qep |-> "None", head |-> "", exc |-> "", body |-> <<>>]

\* the except clauses, tried in order
Except(exc) ==
  [ret |-> "pair", qep |-> "None",
   head |-> IF IsDatabaseError(exc) THEN "Database error: " ELSE "An error occurred: ",
   exc |-> exc, body |-> <<>>]

Explained(text) ==
  [ret |-> "pair", qep |-> "qep", head |-> "Query Plan Explanation:", exc |-> "", body |-> text]

(***************************************************************************)
(* parse_and_explain: the typed nodes and the work list.                   *)
(***************************************************************************)
create_node(plan) == [cls |-> ClassOf(qep[plan].type), json |-> plan, children |-> <<>>]

\* the child put in front of its elder siblings
PrependChild(children, child) == <<child>> \o children

AppendChild(children, child) == Append(children, child)

\* the for loop over plan['Plans'], from the i-th sub-plan on
RECURSIVE ForSubplans(_, _, _, _, _)
ForSubplans(node, subs, i, nds, stk) ==
  IF i > Len(subs) THEN [nodes |-> nds, stack |-> stk, exc |-> ""]
  ELSE IF ~Has(qep[subs[i]], "Node Type") THEN [nodes |-> nds, stack |-> stk, exc |-> "KeyError"]
  ELSE LET child == Len(nds) + 1
       IN  ForSubplans(node, subs, i + 1,
             Append([nds EXCEPT ![node].children = AppendChild(@, child)], create_node(subs[i])),
             Append(stk, [node |-> child, plan |-> subs[i]]))

(***************************************************************************)
(* Node.explain as a call stack: one frame per call in progress.           *)
(***************************************************************************)
\* Vocabulary of the properties: the identity triple (Node Type, Plan Rows,
\* Total Cost) of a typed node, and the order in which the walk reaches nodes.
Identity(id) ==
  LET json == qep[nodes[id].json]
  IN  <<IF Has(json, "Node Type") THEN json.type ELSE "None",
        FmtGet(json, "Plan Rows", json.rows), FmtGet(json, "Total Cost", json.total)>>

\* the place of the call explain(id) in the walk (past the end: not called yet)
Pos(id) ==
  IF \E k \in 1..Len(log) : log[k].op = "explain" /\ log[k].node = id
    THEN CHOOSE k \in 1..Len(log) : log[k].op = "explain" /\ log[k].node = id
    ELSE Len(log) + 1

\* a node with the same triple was explained earlier in the walk
SeenEarlier(id) ==
  \E k \in 1..Len(log) :
    /\ log[k].op = "explain" /\ log[k].node # id
    /\ k < Pos(id)
    /\ Identity(log[k].node) = Identity(id)

\* a walk that returns early from a node whose triple was seen, children unvisited
ChildrenUnlessSeen(id) == IF SeenEarlier(id) THEN <<>> ELSE nodes[id].children

\* self.children, as the loop of explain reads it
Children(id) == nodes[id].children

Frame(id, depth) == [node |-> id, depth |-> depth, i |-> 0, explanation |-> <<>>, fresh |-> TRUE]

\* the child rendered at its parent's depth
SameDepth(depth) == depth

ChildDepth(depth) == depth + 1

Concat(explanation, returned) == explanation \o returned

\* the summary lines kept back for a triple that was rendered before
SummaryOncePerIdentity(json, depth, id) ==
  IF SeenEarlier(id) THEN <<>>
  ELSE << Line(depth, "Node Type", <<IF Has(json, "Node Type") THEN json.type ELSE "Unknown">>, id),
          Line(depth, "Cost", <<FmtGet(json, "Startup Cost", json.startup), FmtGet(json, "Total Cost", json.total)>>, id),
          Line(depth, "Rows", <<FmtGet(json, "Plan Rows", json.rows), FmtGet(json, "Plan Width", json.width)>>, id) >>

\* the type line, the cost line and the rows/width line
Summary(json, depth, id) ==
  << Line(depth, "Node Type", <<IF Has(json, "Node Type") THEN json.type ELSE "Unknown">>, id),
     Line(depth, "Cost", <<FmtGet(json, "Startup Cost", json.startup), FmtGet(json, "Total Cost", json.total)>>, id),
     Line(depth, "Rows", <<FmtGet(json, "Plan Rows", json.rows), FmtGet(json, "Plan Width", json.width)>>, id) >>

SubPlans(plan) == IF Has(qep[plan], "Plans") THEN Plans(qep, plan) ELSE <<>>

RawAll(paths) == [i \in 1..Len(paths) |-> qep[paths[i]]]

ChildJson(id) == [i \in 1..Len(nodes[id].children) |-> qep[nodes[nodes[id].children[i]].json]]

Top == frames[Len(frames)]

(***************************************************************************)
(* on_query_submit of project.py: the caller of analyze_query and the GUI  *)
(* call it ends with.                                                      *)
(***************************************************************************)
\* what analyze_query hands back: the tuple of a return statement, or None
Returned(res) ==
  IF res.ret = "pair" THEN <<res.qep, [head |-> res.head, exc |-> res.exc, body |-> res.body]>>
  ELSE <<>>

\* the names the caller unpacks the result into
UnpackTargets == <<"qep", "explanation", "graph_data">>

\* the exception of  a, b, ... = value  ("" when the unpacking succeeds)
Unpack(res, targets) ==
  IF res.ret # "pair" THEN "TypeError"
  ELSE IF Len(Returned(res)) # Len(targets) THEN "ValueError"
  ELSE ""

NothingShown == [call |-> "", exc |-> "", text |-> <<>>, graph |-> FALSE]

display_error(exc) == [call |-> "display_error", exc |-> exc, text |-> <<>>, graph |-> FALSE]

display_explanation(explanation) ==
  [call |-> "display_explanation", exc |-> "", text |-> explanation.body, graph |-> FALSE]

Init ==
  /\ pc = "start"
  /\ qep = <<>>
  /\ nodes = <<>>
  /\ stack = <<>>
  /\ frames = <<>>
  /\ result = Pending
  /\ log = <<>>
  /\ gui = NothingShown

\* analyze_query up to the call of parse_and_explain
ExecuteExplain ==
  /\ pc = "start"
  /\ \E r \in Responses :
       /\ pc' = IF r.kind = "plan" THEN "root" ELSE "done"
       /\ qep' = r.plan
       /\ result' = CASE r.kind = "raise" -> Except(r.exc)
                      [] r.kind = "falsy" -> ReturnsNothing
                      [] OTHER -> result
  /\ UNCHANGED <<gui, nodes, stack, frames, log>>

\* the root built with plan.get('Node Type') instead of plan['Node Type']
CreateRootWithGet ==
  /\ pc = "root"
  /\ nodes' = <<create_node(<<>>)>>
  /\ stack' = <<[node |-> 1, plan |-> <<>>]>>
  /\ pc' = "build"
  /\ UNCHANGED <<gui, qep, frames, log, result>>

\* root_node = create_node(qep_json['Plan'], cursor); stack = [(root_node, plan)]
CreateRoot ==
  /\ pc = "root"
  /\ IF Has(qep[<<>>], "Node Type")
       THEN /\ nodes' = <<create_node(<<>>)>>
            /\ stack' = <<[node |-> 1, plan |-> <<>>]>>
            /\ pc' = "build"
            /\ UNCHANGED result
       ELSE /\ result' = Except("KeyError")
            /\ pc' = "done"
            /\ UNCHANGED <<nodes, stack>>
  /\ UNCHANGED <<gui, qep, frames, log>>

\* one iteration of the while loop
Expand ==
  /\ pc = "build"
  /\ stack # <<>>
  /\ LET top == stack[Len(stack)]
         out == ForSubplans(top.node, SubPlans(top.plan), 1, nodes, SubSeq(stack, 1, Len(stack) - 1))
     IN  /\ nodes' = out.nodes
         /\ stack' = out.stack
         /\ IF out.exc = "" THEN UNCHANGED <<pc, result>>
            ELSE result' = Except(out.exc) /\ pc' = "done"
  /\ UNCHANGED <<gui, qep, frames, log>>

\* return root_node.explain()
CallExplain ==
  /\ pc = "build"
  /\ stack = <<>>
  /\ frames' = <<Frame(1, 0)>>
  /\ pc' = "explain"
  /\ UNCHANGED <<gui, qep, nodes, stack, result, log>>

\* the node's own lines and its fetch_stats
ExplainNode ==
  /\ pc = "explain"
  /\ Top.fresh
  /\ LET id == Top.node
         json == qep[nodes[id].json]
     IN  \E c \in [1..2 -> Outcomes] :
           /\ \A i \in 1..2 : (i > NumLookups(json) \/ (i = 2 /\ c[1] # "row")) => c[i] = "row"
           /\ LET fs == fetch_stats(nodes[id].cls, json, RawAll(SubPlans(nodes[id].json)),
                                    ChildJson(id), Top.depth, id, c)
              IN  IF fs.exc = ""
                    THEN /\ frames' = [frames EXCEPT ![Len(frames)] =
                                         [@ EXCEPT !.explanation = Summary(json, Top.depth, id) \o fs.lines,
                                                   !.fresh = FALSE]]
                         /\ UNCHANGED <<pc, result>>
                    ELSE /\ frames' = <<>>
                         /\ result' = Except(fs.exc)
                         /\ pc' = "done"
           /\ log' = log \o <<[op |-> "explain", node |-> id, c |-> <<>>],
                               [op |-> "fetch_stats", node |-> id, c |-> c]>>
  /\ UNCHANGED <<gui, qep, nodes, stack>>

\* for child in self.children: child.explain(depth + 1)
ExplainChild ==
  /\ pc = "explain"
  /\ ~Top.fresh
  /\ Top.i < Len(Children(Top.node))
  /\ frames' = Append(frames, Frame(Children(Top.node)[Top.i + 1], ChildDepth(Top.depth)))
  /\ log' = Append(log, [op |-> "child", node |-> Top.node, c |-> <<>>])
  /\ UNCHANGED <<gui, pc, qep, nodes, stack, result>>

\* return explanation: to the parent's loop, or from the root to analyze_query
ExplainReturn ==
  /\ pc = "explain"
  /\ ~Top.fresh
  /\ Top.i = Len(Children(Top.node))
  /\ IF Len(frames) = 1
       THEN /\ result' = Explained(Top.explanation)
            /\ pc' = "done"
            /\ frames' = <<>>
       ELSE /\ frames' = [SubSeq(frames, 1, Len(frames) - 1) EXCEPT ![Len(frames) - 1] =
                            [@ EXCEPT !.explanation = Concat(@, Top.explanation), !.i = @ + 1]]
            /\ UNCHANGED <<pc, result>>
  /\ UNCHANGED <<gui, qep, nodes, stack, log>>

\* with DBConnection(...) as conn: psycopg2.connect raises
ConnectFails ==
  /\ pc = "start"
  /\ pc' = "shown"
  /\ gui' = display_error("OperationalError")
  /\ UNCHANGED <<qep, nodes, stack, frames, result, log>>

\* qep, explanation, graph_data = analyze_query(query, conn) and what follows it
OnQuerySubmit ==
  /\ pc = "done"
  /\ pc' = "shown"
  /\ gui' = IF Unpack(result, UnpackTargets) # ""
              THEN display_error(Unpack(result, UnpackTargets))
              ELSE [display_explanation(Returned(result)[2]) EXCEPT !.graph = Returned(result)[3] # "None"]
  /\ UNCHANGED <<qep, nodes, stack, frames, result, log>>

Next ==
  \/ ConnectFails
  \/ OnQuerySubmit
  \/ ExecuteExplain
  \/ CreateRoot
  \/ Expand
  \/ CallExplain
  \/ ExplainNode
  \/ ExplainChild
  \/ ExplainReturn

Spec == Init /\ [][Next]_vars

(***************************************************************************)
(* Vocabulary of the properties.                                           *)
(***************************************************************************)
Ids == 1..Len(nodes)

\* analyze_query returned (qep, "Query Plan Explanation:\n" + report)
Success == pc = "done" /\ result.ret = "pair" /\ result.qep = "qep"

\* analyze_query returned (None, message) from an except clause
Failed == pc = "done" /\ result.ret = "pair" /\ result.qep = "None"

\* the work-list loop of parse_and_explain has terminated normally
Built == (pc = "build" /\ stack = <<>>) \/ pc = "explain" \/ Success

LinesBy(id) == SelectSeq(result.body, LAMBDA l : l.by = id)

LinesOfKind(id, kind) == SelectSeq(result.body, LAMBDA l : l.by = id /\ l.kind = kind)

Places(id) == { k \in 1..Len(result.body) : result.body[k].by = id }

Count(op, id) == Cardinality({ k \in 1..Len(log) : log[k].op = op /\ log[k].node = id })

\* b has the triple of a, which the walk reached first
Dup(a, b) == a # b /\ Identity(a) = Identity(b) /\ Pos(a) < Pos(b)

IsChild(a, b) == \E i \in 1..Len(nodes[a].children) : nodes[a].children[i] = b

RECURSIVE DepthOf(_)
DepthOf(id) == IF \E a \in Ids : IsChild(a, id)
                 THEN 1 + DepthOf(CHOOSE a \in Ids : IsChild(a, id))
                 ELSE 0

RECURSIVE Subtree(_)
Subtree(id) == {id} \cup UNION { Subtree(nodes[id].children[i]) : i \in 1..Len(nodes[id].children) }

\* the outcomes of the lookups of fetch_stats(id)
LookupsOf(id) ==
  LET k == CHOOSE k \in 1..Len(log) : log[k].op = "fetch_stats" /\ log[k].node = id
  IN  log[k].c

\* what explain(id) itself adds to the report: summary and cost-model text
OwnText(id) ==
  LET json == qep[nodes[id].json]
      d == Len(nodes[id].json)
  IN  Summary(json, d, id)
      \o fetch_stats(nodes[id].cls, json, RawAll(SubPlans(nodes[id].json)), ChildJson(id), d, id,
                     LookupsOf(id)).lines

C2_EachNodeVisitedOnce ==
  Success =>
    /\ Len(nodes) = Cardinality(DOMAIN qep)
    /\ \A id \in Ids :
         /\ Count("explain", id) = 1
         /\ Count("fetch_stats", id) = 1
         /\ Count("child", id) = Len(nodes[id].children)
         /\ (SubPlans(nodes[id].json) = <<>> => Count("child", id) = 0)

\* a finished walk over a plan where a node with a repeated triple has a child
C2_Witness ==
  Success /\ \E a, b \in Ids : Dup(a, b) /\ nodes[b].children # <<>>
                                /\ Count("explain", nodes[b].children[1]) = 1

(***************************************************************************)
(* C3: when the work-list loop has terminated, every raw plan object has   *)
(* one typed node, with as many children as the object's 'Plans' list, the *)
(* i-th child built from the i-th sub-plan.                                *)
(***************************************************************************)
C3_ChildrenInSourceOrder ==
  Built =>
    /\ \A p \in DOMAIN qep : Cardinality({ id \in Ids : nodes[id].json = p }) = 1
    /\ \A id \in Ids :
         LET subs == SubPlans(nodes[id].json)
         IN  /\ Len(nodes[id].children) = Len(subs)
             /\ \A i \in 1..Len(subs) : nodes[nodes[id].children[i]].json = subs[i]

\* a built tree whose root has two children, the first of them with a child of its own:
\* the work list expands the second child before the first
C3_Witness ==
  /\ Built
  /\ Len(nodes) >= 4
  /\ Len(nodes[1].children) = 2
  /\ nodes[nodes[1].children[1]].children # <<>>

(***************************************************************************)
(* C4: in the report a node's own text precedes the text of all of its     *)
(* descendants, the whole text of child i precedes the text of child i+1,  *)
(* and every line of a node at depth d has the indentation of depth d.     *)
(***************************************************************************)
C4_PreOrderAndDepth ==
  Success => \A id \in Ids :
    /\ Places(id) # {}
    /\ \A l \in Places(id) : result.body[l].indent = DepthOf(id)
    /\ \A d \in Subtree(id) \ {id} : \A k \in Places(id), l \in Places(d) : k < l
    /\ \A i \in 1..(Len(nodes[id].children) - 1) :
         \A x \in Subtree(nodes[id].children[i]), y \in Subtree(nodes[id].children[i + 1]) :
           \A k \in Places(x), l \in Places(y) : k < l

\* a report of a tree with two children under the root and a node at depth 2
C4_Witness ==
  /\ Success
  /\ Len(nodes[1].children) = 2
  /\ \E id \in Ids : DepthOf(id) = 2 /\ Places(id) # {}

(***************************************************************************)
(* C5: a node whose 'Node Type' is not in the registry is built with the   *)
(* base class; its rendering is the type line, the cost line and the       *)
(* rows/width line and nothing else, explaining it raises nothing, and its *)
(* children are built and rendered.                                        *)
(***************************************************************************)
Unregistered(id) ==
  Has(qep[nodes[id].json], "Node Type") /\ qep[nodes[id].json].type \notin RegisteredTypes

C5_UnknownTypeGeneric ==
  /\ \A id \in Ids : Unregistered(id) => nodes[id].cls = "Node"
  /\ (Failed /\ log # <<>>) => ~Unregistered(log[Len(log)].node)
  /\ Success => \A id \in Ids : Unregistered(id) =>
       /\ [k \in 1..Len(LinesBy(id)) |-> LinesBy(id)[k].kind] = <<"Node Type", "Cost", "Rows">>
       /\ LinesBy(id)[1].args = <<qep[nodes[id].json].type>>
       /\ Len(nodes[id].children) = Len(SubPlans(nodes[id].json))
       /\ \A i \in 1..Len(nodes[id].children) : Places(nodes[id].children[i]) # {}

\* a report of a plan with a node of unknown type that has children
C5_Witness ==
  Success /\ \E id \in Ids : Unregistered(id) /\ nodes[id].children # <<>>
                              /\ Places(nodes[id].children[1]) # {}

(***************************************************************************)
(* C6 as stated: a top-level plan object without 'Node Type' yields one    *)
(* error result, with no tree and no partial text, in a category of its    *)
(* own: neither that of a plan-source failure nor that of an internal      *)
(* fault.                                                                  *)
(***************************************************************************)
RootMalformed == DOMAIN qep # {} /\ ~Has(qep[<<>>], "Node Type")

Range(f) == { f[i] : i \in DOMAIN f }

LastCall == log[Len(log)]

\* the fetch_stats call of the node got no row from a lookup
NoRow(id) ==
  /\ Has(qep[nodes[id].json], "Node Type") /\ qep[nodes[id].json].type \in LookupTypes
  /\ \E k \in 1..Len(log) : log[k].op = "fetch_stats" /\ log[k].node = id /\ "none" \in Range(log[k].c)

C7_MissingRowDegradesOneNode ==
  /\ (Failed /\ log # <<>>) => ~NoRow(LastCall.node)
  /\ Success => \A id \in Ids : NoRow(id) => \A other \in Ids \ {id} : LinesBy(other) = OwnText(other)

(***************************************************************************)
(* C8 as stated: a Seq Scan without 'Relation Name', or an Index Scan      *)
(* whose index has no catalog row, is rendered with an explicit cost line  *)
(* marking the manual formula as unavailable, and its children are         *)
(* rendered unaffected.                                                    *)
(***************************************************************************)
Degraded(id) ==
  LET json == qep[nodes[id].json]
  IN  /\ Has(json, "Node Type")
      /\ \/ json.type = "Seq Scan" /\ ~Has(json, "Relation Name")
         \/ /\ json.type = "Index Scan" /\ NumLookups(json) = 1
            /\ \E k \in 1..Len(log) : log[k].op = "fetch_stats" /\ log[k].node = id /\ log[k].c[1] = "none"

ChildrenRendered(id) ==
  \A i \in 1..Len(nodes[id].children) :
    LinesBy(nodes[id].children[i]) = OwnText(nodes[id].children[i])

C9_RootOnlyPlanExplained ==
  ( /\ pc = "done"
    /\ DOMAIN qep = {<<>>}
    /\ Has(qep[<<>>], "Node Type") /\ qep[<<>>].type \in RegisteredTypes
    /\ \A k \in 1..Len(log) : Range(log[k].c) \subseteq {"row"} ) => Success

(***************************************************************************)
(* C10: on every path analyze_query returns a pair whose second component  *)
(* is the report or the error message; it never returns nothing.           *)
(***************************************************************************)
C10_AlwaysReturnsPair ==
  pc = "done" =>
    /\ result.ret = "pair"
    /\ result.head # ""

(***************************************************************************)
(* C11: a successful analysis hands back a structured tree beside the      *)
(* report, so that on_query_submit, which unpacks the result into (qep,    *)
(* explanation, graph_data), reaches display_explanation with the report   *)
(* and not the error path.                                                 *)
(***************************************************************************)
Submitted == pc = "shown" /\ result.ret = "pair" /\ result.qep = "qep"

C11_SuccessReachesDisplay ==
  Submitted =>
    /\ Len(Returned(result)) = Len(UnpackTargets)
    /\ gui.call = "display_explanation"
    /\ gui.text = result.body

(***************************************************************************)
(* C12: in the report of a successful analysis, each attribute of the      *)
(* summary lines (Node Type, Startup Cost, Total Cost, Plan Rows, Plan     *)
(* Width) that a node lacks is shown as "Unknown" in that node's lines.    *)
(***************************************************************************)
\* the i-th value of the first line of the given kind that node id rendered
Shown(id, kind, i) == LinesOfKind(id, kind)[1].args[i]

SummaryPlace == [k \in BaseKeys |->
  CASE k = "Node Type" -> <<"Node Type", 1>>
    [] k = "Startup Cost" -> <<"Cost", 1>>
    [] k = "Total Cost" -> <<"Cost", 2>>
    [] k = "Plan Rows" -> <<"Rows", 1>>
    [] k = "Plan Width" -> <<"Rows", 2>>]

C12_AbsentAttributeUnknown ==
  Success =>
    \A id \in Ids : \A k \in BaseKeys :
      ~Has(qep[nodes[id].json], k) =>
        /\ LinesOfKind(id, SummaryPlace[k][1]) # <<>>
        /\ Shown(id, SummaryPlace[k][1], SummaryPlace[k][2]) = "Unknown"

(***************************************************************************)
(* C13: the manual cost of a Hash Join over two Seq Scan children is       *)
(* 3 * (B(left) + B(right)), B being the page count of each child's        *)
(* relation and not the child's Total Cost: 90 for relations of 10 and 20  *)
(* pages.                                                                  *)
(***************************************************************************)
\* the root is of the given type and has exactly two Seq Scan children whose
\* relations the catalogue knows
JoinOverScans(type) ==
  /\ Success
  /\ Has(qep[<<>>], "Node Type") /\ qep[<<>>].type = type
  /\ Len(nodes[1].children) = 2
  /\ \A i \in 1..2 : /\ ChildJson(1)[i].type = "Seq Scan"
                     /\ LinesOfKind(nodes[1].children[i], "Table stats") # <<>>

C13_HashJoinCostFromPages ==
  JoinOverScans("Hash Join") =>
    /\ LinesOfKind(1, "Manual Cost Formula") # <<>>
    /\ Shown(1, "Manual Cost Formula", 1) =
         ToString(3 * (relpages(ChildJson(1)[1].rel) + relpages(ChildJson(1)[2].rel)))

(***************************************************************************)
(* C14 as stated: the rationale ('Difference Explanation') is emitted only *)
(* when the manual cost differs from the node's Total Cost; a Sort node    *)
(* reports Total Cost times 1 for quicksort, times 3 for external merge,   *)
(* divided by 3 for top-N heapsort, and a quicksort Sort of Total Cost 42  *)
(* reports 42 with no rationale.                                           *)
(***************************************************************************)
Sorts == { id \in Ids : qep[nodes[id].json].type = "Sort" }

SortMethod(id) == IF Has(qep[nodes[id].json], "Sort Method") THEN qep[nodes[id].json].method ELSE "unknown"

\* the manual cost line of a Sort node carries the cost the method prescribes
SortCostAsStated(id) ==
  LET x == TotalCost0(qep[nodes[id].json])
      m == SortMethod(id)
  IN  /\ LinesOfKind(id, "Manual Cost Formula") # <<>>
      /\ CASE m = "external merge" -> Shown(id, "Manual Cost Formula", 1) = ToString(3 * x)
           [] m = "top-N heapsort" ->
                x % 3 = 0 => Shown(id, "Manual Cost Formula", 1) = ToString(x \div 3) \o ".0"
           [] OTHER -> Shown(id, "Manual Cost Formula", 1) = ToString(x)

\* the manual cost of the Sort node is not the Total Cost the plan reports
SortDiverges(id) ==
  \/ ~Has(qep[nodes[id].json], "Total Cost")
  \/ SortMethod(id) \in {"external merge", "top-N heapsort"} /\ qep[nodes[id].json].total # 0

MergeJoins == { id \in Ids : qep[nodes[id].json].type = "Merge Join" }

\* Total Cost of the i-th sub-plan of the node, 0 when there is none
SubCost(id, i) ==
  LET subs == RawAll(SubPlans(nodes[id].json))
  IN  IF Len(subs) >= i THEN TotalCost0(subs[i]) ELSE 0

\* n / 2 as the report prints a fractional number
HalfOf(n) == ToString(n \div 2) \o (IF n % 2 = 0 THEN ".0" ELSE ".5")

C15_MergeJoinThreeTimes ==
  Success =>
    \A id \in MergeJoins :
      Len(nodes[id].children) = 2 =>
        /\ LinesOfKind(id, "Manual Cost Formula") # <<>>
        /\ Shown(id, "Manual Cost Formula", 1) \in
             { ToString(3 * (SubCost(id, 1) + SubCost(id, 2))),
               ToString(3 * (SubCost(id, 1) + SubCost(id, 2))) \o ".0" }

(***************************************************************************)
(* C15 amended: the manual cost a Merge Join reports is                    *)
(* 1.5 * (left_cost + right_cost), printed as a fractional number, where   *)
(* left_cost and right_cost are the Total Cost of the first and of the     *)
(* second sub-plan, a missing sub-plan or missing Total Cost counting 0.   *)
(***************************************************************************)
C15_MergeJoinOneAndAHalf ==
  Success =>
    \A id \in MergeJoins :
      /\ LinesOfKind(id, "Manual Cost Formula") # <<>>
      /\ Shown(id, "Manual Cost Formula", 1) = HalfOf(3 * (SubCost(id, 1) + SubCost(id, 2)))

\* a Merge Join over sub-plans of Total Cost 35 and 70 reported 157.5
C15_Witness ==
  /\ Success
  /\ \E id \in MergeJoins :
       /\ Len(nodes[id].children) = 2
       /\ SubCost(id, 1) = 35 /\ SubCost(id, 2) = 70
       /\ Shown(id, "Manual Cost Formula", 1) = "157.5"

====
